---- MODULE Spec2Model ----
(***************************************************************************)
(* Model of src/starred/starred.py: the `starred` command.  One invocation *)
(* of the command is a run: it reads its options, fetches the starred      *)
(* repositories, groups them by language, compares the reduced snapshot    *)
(* with the pickled one, renders the document and, in publish mode, pushes *)
(* it to a GitHub repository.  Runs follow one another; what survives a    *)
(* run is the pickle file, the output file and the remote repository.      *)
(***************************************************************************)
EXTENDS Integers, Sequences, FiniteSets, TLC

VARIABLES
    pkl,          \* starred-repo.pkl beside the program: <<>> (no file) or the pickle
    outFile,      \* the file at the --output path: NoFile, or [exists, text]
    remote,       \* the repository <username>/<repository> on GitHub
    today,        \* datetime.date.today(), as a day number
    pc,           \* position of the run: idle, fetch, detect, render, publish, exit
    output_file,  \* local output_file: None or "file" (the handle on outFile)
    repo_file,    \* local repo_file: NoBuffer (None) or the BytesIO buffer
    sys_stdout,   \* sys.stdout of the process: "console" or "repo_file"
    console,      \* what the run printed on the real standard output
    stars,        \* the sequence the run fetched (gh.starred_by)
    repo_dict,    \* local repo_dict, as its sequence of <<language, entries>> items
    new_dict,     \* local new_dict, as its sequence of <<language, pairs>> items
    save_pkl,     \* local save_pkl
    options,      \* the command line options the run has read (else their defaults)
    calls,        \* the GitHub write/lookup calls and the browser launch of the run
    result,       \* how the run ended
    pre           \* pkl, outFile and remote as they were when the run started

vars == <<pkl, outFile, remote, today, pc, output_file, repo_file, sys_stdout,
          console, stars, repo_dict, new_dict, save_pkl, options,
          calls, result, pre>>

----------------------------------------------------------------------------
(* Bounds *)

MaxStars == 2        \* longest fetched sequence of the publishing runs
MaxDay == 2          \* calendar days the publishing runs span
MaxSeen == 2         \* longest fetched sequence of the change detection runs
MaxFetched == 3      \* longest fetched sequence of the aggregation run

----------------------------------------------------------------------------
(* Values *)

None == "None"
Username == "user"
Days == 1..MaxDay

\* Every string the model compares, in Python's str order (code points).
StrOrder == <<"Go", "Others", "a", "b">>

StrRank(s) == CHOOSE i \in 1..Len(StrOrder) : StrOrder[i] = s

\* A starred repository as github3 hands it over.  description is the text as
\* its sequence of characters (<<>> when there is none), language is None
\* when GitHub reports none.
Star(n, u, d, l, o, c) ==
    [name |-> n, html_url |-> u, description |-> d, language |-> l,
     owner |-> o, stargazers_count |-> c]

\* The repositories of the publishing runs: one repository, the same with
\* another star count and description, and the same under another URL.
StarPool ==
    { Star("a", "u1", <<>>, "Go", "o", 1),
      Star("a", "u1", <<" ", "<", "\n", "x">>, "Go", "o", 2),
      Star("a", "u2", <<>>, "Go", "o", 1) }

\* The repositories of the change detection runs: every URL, language and
\* star count of one name.
SeenPool ==
    { Star("a", u, <<>>, l, "o", c) : u \in {"u1", "u2"}, l \in {"Go", None}, c \in {1, 2} }

\* The repositories of the aggregation run: every name, language and star count.
RichPool ==
    { Star(n, "u1", <<>>, l, "o", c) : n \in {"a", "b"}, l \in {"Go", None}, c \in {1, 2} }

SeqsUpTo(S, n) == UNION { [1..k -> S] : k \in 0..n }

StarLists == SeqsUpTo(StarPool, MaxStars)
SeenLists == SeqsUpTo(SeenPool, MaxSeen)
RichLists == SeqsUpTo(RichPool, MaxFetched)

----------------------------------------------------------------------------
(* Python helpers *)

Reverse(s) == [i \in 1..Len(s) |-> s[Len(s) + 1 - i]]

\* html_escape_table.get(c, c)
html_escape_char(c) == IF c = ">" THEN "&gt;" ELSE IF c = "<" THEN "&lt;" ELSE c

\* html_escape(text): the text as its sequence of characters
html_escape(text) == [i \in 1..Len(text) |-> html_escape_char(text[i])]

\* str.replace('\n', '')
remove_newlines(text) == SelectSeq(text, LAMBDA c : c # "\n")

Whitespace == {" ", "\t", "\n", "\r"}

RECURSIVE lstrip(_)
lstrip(text) ==
    IF text # <<>> /\ Head(text) \in Whitespace THEN lstrip(Tail(text)) ELSE text

\* str.strip()
strip(text) == Reverse(lstrip(Reverse(lstrip(text))))

\* One step of a stable insertion: x goes behind every item whose key is not greater.
RECURSIVE insert_stable(_, _)
insert_stable(x, s) ==
    IF s = <<>> THEN <<x>>
    ELSE IF x[1] < Head(s)[1] THEN <<x>> \o s
    ELSE <<Head(s)>> \o insert_stable(x, Tail(s))

RECURSIVE sort_stable(_)
sort_stable(items) ==
    IF items = <<>> THEN <<>>
    ELSE insert_stable(items[Len(items)], sort_stable(SubSeq(items, 1, Len(items) - 1)))

sorted_then_reversed(list, keys, reverse) ==
    LET items == [i \in 1..Len(list) |-> <<keys[i], list[i]>>]
        done == IF reverse THEN Reverse(sort_stable(items)) ELSE sort_stable(items)
    IN [i \in 1..Len(done) |-> done[i][2]]

\* sorted(list, key=..., reverse=...): keys[i] is the key of list[i].  The sort
\* is stable; reverse=True reverses the list, sorts it with the order of the
\* keys inverted by reversing, and so keeps equal keys in their original order.
sorted(list, keys, reverse) ==
    LET items == [i \in 1..Len(list) |-> <<keys[i], list[i]>>]
        done == IF reverse THEN Reverse(sort_stable(Reverse(items)))
                ELSE sort_stable(items)
    IN [i \in 1..Len(done) |-> done[i][2]]

----------------------------------------------------------------------------
(* Dictionaries: the sequence of <<key, value>> items in iteration order *)

HasKey(d, k) == \E i \in 1..Len(d) : d[i][1] = k
Get(d, k) == d[CHOOSE i \in 1..Len(d) : d[i][1] = k][2]

\* if k not in d: d[k] = []; d[k].append(v)
dict_append(d, k, v) ==
    IF HasKey(d, k)
    THEN [i \in 1..Len(d) |-> IF d[i][1] = k THEN <<k, Append(d[i][2], v)>> ELSE d[i]]
    ELSE Append(d, <<k, <<v>>>>)

\* OrderedDict(sorted(d.items(), key=lambda l: l[0]))
sorted_items(d) == sorted(d, [i \in 1..Len(d) |-> StrRank(d[i][1])], FALSE)

----------------------------------------------------------------------------
(* The loop over the fetched stars, lines 117-132 *)

\* language = s.language or 'Others'
language_of(s) == IF s.language = None THEN "Others" ELSE s.language

\* html_escape(s.description).replace('\n', '') if s.description else '',
\* stripped when it is stored
description_of(s) ==
    IF s.description # <<>> THEN strip(remove_newlines(html_escape(s.description)))
    ELSE <<>>

\* The entry of repo_dict: l[0] .. l[5] of the code are [1] .. [6] here.
repo_entry(s, star_order) ==
    <<s.name, s.html_url, description_of(s), s.owner, s.stargazers_count, star_order>>

new_entry_with_stars(s) == <<s.name, s.html_url, s.stargazers_count>>

\* The entry of new_dict, the reduced snapshot.
new_entry(s) == <<s.name, s.html_url>>

\* repo_dict and new_dict after the first n stars; star_order is n - 1 for the n-th.
RECURSIVE group_stars(_, _)
group_stars(ss, n) ==
    IF n = 0 THEN [repo_dict |-> <<>>, new_dict |-> <<>>]
    ELSE LET before == group_stars(ss, n - 1)
             s == ss[n]
         IN [repo_dict |-> dict_append(before.repo_dict, language_of(s),
                                       repo_entry(s, n - 1)),
             new_dict |-> dict_append(before.new_dict, language_of(s), new_entry(s))]

----------------------------------------------------------------------------
(* The snapshot file, lines 134-150 *)

\* pickle.dump(new_dict, file): the file holds the class of the object and its items
pickle_dump(d) == <<"OrderedDict", d>>

\* pickle.load(file, encoding='utf-8')
pickle_load(f) == f[2]

\* os.path.isfile(repo_pkl_path)
isfile(f) == f # <<>>

\* operator.eq(old_dict, new_dict) on the loaded file
same_as_stored(f, d) == isfile(f) /\ pickle_load(f) = d

unchanged_abort_never(f, d, rf) == FALSE

\* lines 143-146: the unchanged snapshot ends a publishing run
unchanged_abort(f, d, rf) == same_as_stored(f, d) /\ rf.exists

----------------------------------------------------------------------------
(* Sorting and rendering, lines 152-210 *)

Sorts == {"stars", "date", "name"}
Types == {"table", "list"}

\* lines 154-167: the entries of one language in the order of the sort mode
sort_entries(entries, sort) ==
    IF sort = "date"
    THEN sorted(entries, [i \in 1..Len(entries) |-> entries[i][6]], FALSE)
    ELSE IF sort = "name"
    THEN sorted(entries, [i \in 1..Len(entries) |-> StrRank(entries[i][1])], FALSE)
    ELSE sorted(entries, [i \in 1..Len(entries) |-> entries[i][5]], TRUE)

sort_groups(d, sort) == [i \in 1..Len(d) |-> <<d[i][1], sort_entries(d[i][2], sort)>>]

RECURSIVE count_total(_)
count_total(d) == IF d = <<>> THEN 0 ELSE Len(Head(d)[2]) + count_total(Tail(d))

\* lines 186-191: the rows of the table of one language
info_rows(entries) ==
    [i \in 1..Len(entries) |->
        <<i, <<entries[i][1], entries[i][2]>>, entries[i][3], entries[i][4], entries[i][5]>>]

\* lines 196-207: the section of one language
section(language, entries, type) ==
    [heading |-> <<language, Len(entries)>>,
     head |-> IF type = "table" THEN <<"", "Name", "Description", "Owner", "Stars">>
              ELSE <<>>,
     rows |-> IF type = "table" THEN info_rows(entries)
              ELSE [i \in 1..Len(entries) |->
                        <<entries[i][1], entries[i][2], entries[i][3]>>]]

\* The document the run echoes: badges, contents, sections, license.
render(d, total, day, type, username) ==
    LET info_dict == sorted_items(d)
    IN [count |-> total,
        date |-> day,
        contents |-> [i \in 1..Len(d) |-> <<d[i][1], Len(d[i][2])>>],
        sections |-> [i \in 1..Len(info_dict) |->
                         section(info_dict[i][1], Get(d, info_dict[i][1]), type)],
        license |-> username]

----------------------------------------------------------------------------
(* GitHub, as lines 212-233 use it *)

\* The repository: whether it exists, the number of commits of its README.md
\* and of the archive of each day (0: there is no such file).
NoRepo == [exists |-> FALSE, readme |-> 0, archives |-> [d \in Days |-> 0]]
EmptyRepo == [exists |-> TRUE, readme |-> 0, archives |-> [d \in Days |-> 0]]
InitRepo == [exists |-> TRUE, readme |-> 1, archives |-> [d \in Days |-> 0]]

Call(op, path, msg) == [op |-> op, path |-> path, message |-> msg]

ReadmePath == <<"README.md">>
ArchivePath(day) == <<"Archives/README", day>>

\* 'Add starred {}'.format(today) and 'Archive starred {}'.format(today)
AddStarred(day) == <<"Add starred", day>>
ArchiveStarred(day) == <<"Archive starred", day>>

\* lines 213-214
commit_message(msg, day) == IF msg = <<>> THEN AddStarred(day) ELSE msg

\* gh.repository(username, repository) finds the repository
repository_found(r) == r.exists

archive_found_never(r, day) == FALSE

\* rep.file_contents('/Archives/README-<today>.md') finds the archive
archive_found(r, day) == r.archives[day] > 0

\* rep.readme() finds a README
readme_found(r) == r.readme > 0

\* rep.create_file of the archive of the day: one more commit on the path
with_archive(r, day) == [r EXCEPT !.archives[day] = @ + 1]

\* readme.update, or rep.create_file of README.md: one more commit on the path
with_readme(r) == [r EXCEPT !.readme = @ + 1]

\* lines 232-233
launch_calls(launch) == IF launch THEN <<Call("launch", <<>>, <<>>)>> ELSE <<>>

\* The remote part of a publishing run: the calls it makes, the repository
\* after them, and how it ends.
publish(r, msg, launch, day) ==
    IF repository_found(r)
    THEN IF archive_found(r, day)
         THEN \* lines 219-221: the archive of today is there
              [calls |-> <<Call("repository", <<>>, <<>>),
                           Call("file_contents", ArchivePath(day), <<>>)>>
                         \o launch_calls(launch),
               remote |-> r,
               result |-> "duplicate"]
         ELSE IF readme_found(r)
         THEN \* lines 222-226
              [calls |-> <<Call("repository", <<>>, <<>>),
                           Call("file_contents", ArchivePath(day), <<>>),
                           Call("readme", ReadmePath, <<>>),
                           Call("update", ReadmePath, commit_message(msg, day)),
                           Call("create_file", ArchivePath(day), ArchiveStarred(day))>>
                         \o launch_calls(launch),
               remote |-> with_archive(with_readme(r), day),
               result |-> "published"]
         ELSE \* rep.readme() raises NotFoundError inside the inner handler: the
              \* outer handler takes it, and create_repository of a repository
              \* that exists is refused by GitHub (422), which nothing catches
              [calls |-> <<Call("repository", <<>>, <<>>),
                           Call("file_contents", ArchivePath(day), <<>>),
                           Call("readme", ReadmePath, <<>>),
                           Call("create_repository", <<>>, <<>>)>>,
               remote |-> r,
               result |-> "uncaught"]
    ELSE \* lines 227-231
         [calls |-> <<Call("repository", <<>>, <<>>),
                      Call("create_repository", <<>>, <<>>),
                      Call("create_file", ReadmePath, AddStarred(day)),
                      Call("create_file", ArchivePath(day), ArchiveStarred(day))>>
                    \o launch_calls(launch),
          remote |-> with_archive(with_readme([r EXCEPT !.exists = TRUE]), day),
          result |-> "published"]

----------------------------------------------------------------------------
(* The runs *)

NoBuffer == [exists |-> FALSE, data |-> <<>>]
NoFile == [exists |-> FALSE, text |-> <<>>]

\* open(output, "w"): the file is there and empty
opened_for_writing == [exists |-> TRUE, text |-> <<>>]

\* The options as click hands them over when none is given on the command
\* line.  output and repository say whether the option is a non-empty string,
\* token whether one is given; message is <<>> when none is given.
Defaults ==
    [output |-> FALSE, repository |-> FALSE, token |-> FALSE, sort |-> "date",
     type |-> "table", message |-> <<>>, launch |-> FALSE]

Messages == {<<>>, <<"msg">>}

\* A process that has not started a run.
Idle ==
    /\ pc = "idle"
    /\ output_file = None
    /\ repo_file = NoBuffer
    /\ sys_stdout = "console"
    /\ console = <<>>
    /\ stars = <<>>
    /\ repo_dict = <<>>
    /\ new_dict = <<>>
    /\ save_pkl = TRUE
    /\ options = Defaults
    /\ calls = <<>>
    /\ result = "none"
    /\ pre = [pkl |-> pkl, outFile |-> outFile, remote |-> remote]

Init ==
    /\ pkl = <<>>
    /\ outFile = NoFile
    /\ remote \in {NoRepo, EmptyRepo, InitRepo}
    /\ today = 1
    /\ Idle

\* The calendar moves on between two runs.
NextDay ==
    /\ pc = "idle"
    /\ today < MaxDay
    /\ today' = today + 1
    /\ UNCHANGED <<pkl, outFile, remote, pc, output_file, repo_file, sys_stdout,
                   console, stars, repo_dict, new_dict, save_pkl, options, calls,
                   result, pre>>

\* Lines 86-104 of a run with the given output, repository and token.  The
\* other options are read further down, and drawn where they are read.
Start(output, repository, token) ==
    /\ pc = "idle"
    /\ options' = [options EXCEPT !.output = output, !.repository = repository,
                                  !.token = token]
    /\ outFile' = IF output THEN opened_for_writing ELSE outFile
    /\ IF repository /\ ~token
       THEN \* lines 97-98
            /\ result' = "no_token"
            /\ pc' = "exit"
            /\ output_file' = IF output THEN "file" ELSE None
            /\ repo_file' = NoBuffer
            /\ sys_stdout' = "console"
       ELSE /\ result' = "running"
            /\ pc' = "fetch"
            /\ output_file' = IF output /\ ~repository THEN "file" ELSE None
            /\ repo_file' = IF repository THEN [exists |-> TRUE, data |-> <<>>]
                            ELSE NoBuffer
            /\ sys_stdout' = IF repository THEN "repo_file" ELSE "console"
    /\ UNCHANGED <<pkl, remote, today, console, stars, repo_dict, new_dict,
                   save_pkl, calls, pre>>

\* Lines 106-132 when GitHub answers with the stars ss.
FetchStars(ss) ==
    /\ pc = "fetch"
    /\ stars' = ss
    /\ repo_dict' = sorted_items(group_stars(ss, Len(ss)).repo_dict)
    /\ new_dict' = sorted_items(group_stars(ss, Len(ss)).new_dict)
    /\ pc' = "detect"
    /\ UNCHANGED <<pkl, outFile, remote, today, output_file, repo_file, sys_stdout,
                   console, save_pkl, options, calls, result, pre>>

\* Lines 106-111 when gh.starred_by raises ForbiddenError (caught), and lines
\* 119-129 when the iteration raises it (nothing catches it there).
FetchForbidden ==
    /\ pc = "fetch"
    /\ \E r \in {"forbidden", "uncaught_forbidden"} : result' = r
    /\ pc' = "exit"
    /\ UNCHANGED <<pkl, outFile, remote, today, output_file, repo_file, sys_stdout,
                   console, stars, repo_dict, new_dict, save_pkl, options, calls,
                   pre>>

\* Lines 134-150.
Detect ==
    /\ pc = "detect"
    /\ save_pkl' = ~same_as_stored(pkl, new_dict)
    /\ IF unchanged_abort(pkl, new_dict, repo_file)
       THEN /\ result' = "unchanged"
            /\ pc' = "exit"
            /\ UNCHANGED pkl
       ELSE /\ pkl' = IF save_pkl' THEN pickle_dump(new_dict) ELSE pkl
            /\ pc' = "render"
            /\ UNCHANGED result
    /\ UNCHANGED <<outFile, remote, today, output_file, repo_file, sys_stdout,
                   console, stars, repo_dict, new_dict, options, calls, pre>>

\* Lines 152-210 with the given sort and type: sort, then echo the document
\* to output_file, or to sys.stdout when output_file is None.
Render(sort, type) ==
    /\ pc = "render"
    /\ options' = [options EXCEPT !.sort = sort, !.type = type]
    /\ repo_dict' = sort_groups(repo_dict, sort)
    /\ LET doc == render(repo_dict', count_total(repo_dict'), today, type, Username)
       IN /\ outFile' = IF output_file = "file" THEN [exists |-> TRUE, text |-> <<doc>>]
                        ELSE outFile
          /\ repo_file' = IF output_file = None /\ sys_stdout = "repo_file"
                          THEN [exists |-> TRUE, data |-> <<doc>>] ELSE repo_file
          /\ console' = IF output_file = None /\ sys_stdout = "console"
                        THEN <<doc>> ELSE console
    /\ pc' = "publish"
    /\ UNCHANGED <<pkl, remote, today, output_file, sys_stdout, stars, new_dict,
                   save_pkl, calls, result, pre>>

\* Lines 212-233 with the given message and launch.
Publish(msg, flag) ==
    /\ pc = "publish"
    /\ IF repo_file.exists
       THEN LET p == publish(remote, msg, flag, today)
            IN /\ options' = [options EXCEPT !.message = msg, !.launch = flag]
               /\ calls' = p.calls
               /\ remote' = p.remote
               /\ result' = p.result
       ELSE /\ result' = "done"
            /\ UNCHANGED <<options, calls, remote>>
    /\ pc' = "exit"
    /\ UNCHANGED <<pkl, outFile, today, output_file, repo_file, sys_stdout, console,
                   stars, repo_dict, new_dict, save_pkl, pre>>

\* The process ends; the files and the repository stay.
Exit ==
    /\ pc = "exit"
    /\ pc' = "idle"
    /\ output_file' = None
    /\ repo_file' = NoBuffer
    /\ sys_stdout' = "console"
    /\ console' = <<>>
    /\ stars' = <<>>
    /\ repo_dict' = <<>>
    /\ new_dict' = <<>>
    /\ save_pkl' = TRUE
    /\ options' = Defaults
    /\ calls' = <<>>
    /\ result' = "none"
    /\ pre' = [pkl |-> pkl, outFile |-> outFile, remote |-> remote]
    /\ UNCHANGED <<pkl, outFile, remote, today>>

(* Publishing and change detection over several runs and days; the document
   goes to the standard output or to the buffer. *)
StartRun == \E repository \in BOOLEAN, token \in BOOLEAN : Start(FALSE, repository, token)
Fetch == \E ss \in StarLists : FetchStars(ss)
RenderRun == \E sort \in Sorts, type \in Types : Render(sort, type)
PublishRun == \E msg \in Messages, flag \in BOOLEAN : Publish(msg, flag)

Next ==
    \/ NextDay
    \/ StartRun
    \/ Fetch
    \/ FetchForbidden
    \/ Detect
    \/ RenderRun
    \/ PublishRun
    \/ Exit

Spec == Init /\ [][Next]_vars

(* Runs that write the document to the --output file, on one day. *)
LocalInit == Init /\ remote = NoRepo

StartLocal == \E output \in BOOLEAN : Start(output, FALSE, FALSE)

LocalNext ==
    \/ StartLocal
    \/ Fetch
    \/ FetchForbidden
    \/ Detect
    \/ RenderRun
    \/ PublishRun
    \/ Exit

LocalSpec == LocalInit /\ [][LocalNext]_vars

(* Runs that print the document, on one day, over repositories of several
   languages: the snapshot from run to run. *)
StartPrint == Start(FALSE, FALSE, FALSE)
FetchSeen == \E ss \in SeenLists : FetchStars(ss)

DetectNext ==
    \/ StartPrint
    \/ FetchSeen
    \/ Detect
    \/ RenderRun
    \/ PublishRun
    \/ Exit

DetectSpec == LocalInit /\ [][DetectNext]_vars

(* One run over every short sequence of repositories: grouping and sorting. *)
StartOnce == Start(FALSE, FALSE, FALSE)
FetchRich == \E ss \in RichLists : FetchStars(ss)

SortNext ==
    \/ StartOnce
    \/ FetchRich
    \/ Detect
    \/ RenderRun
    \/ PublishRun

SortSpec == LocalInit /\ [][SortNext]_vars

----------------------------------------------------------------------------
(* What the properties speak of *)

\* The run got its stars and went through the comparison with the pickle.
Compared ==
    \/ pc \in {"render", "publish"}
    \/ pc = "exit" /\ result \in {"unchanged", "done", "published", "duplicate", "uncaught"}

\* The run is over and was a publishing one (repository and token given).
PublishingExit == pc = "exit" /\ options.repository /\ options.token

GroupKey(s) == IF s.language = None THEN "Others" ELSE s.language

\* The snapshot of a fetched sequence, said directly: for each language of
\* the sequence, the (name, URL) pairs of its repositories in fetch order.
Reduced(ss) ==
    [l \in {GroupKey(ss[i]) : i \in 1..Len(ss)} |->
        LET mine == SelectSeq(ss, LAMBDA s : GroupKey(s) = l)
        IN [i \in 1..Len(mine) |-> <<mine[i].name, mine[i].html_url>>]]

\* What a pickle file holds, as a mapping from language to pairs.
Stored(f) ==
    LET items == f[2]
    IN [l \in {items[i][1] : i \in 1..Len(items)} |-> Get(items, l)]

\* The pickle the run found holds the snapshot of the stars it fetched.
SameSnapshot == pre.pkl # <<>> /\ Stored(pre.pkl) = Reduced(stars)

IsWrite(c) == c.op \in {"update", "create_file", "create_repository"}
Made(op) == \E i \in 1..Len(calls) : calls[i].op = op

----------------------------------------------------------------------------
(* C1: a run that finds no pickle counts the stars as changed and stores
   their snapshot; a run whose stars have the stored snapshot (the same
   languages, the same (name, URL) pairs in the same order for each) counts
   them as unchanged and leaves the pickle alone, whatever the descriptions,
   owners and star counts are; a run whose stars have another snapshot counts
   them as changed and stores the new snapshot. *)
C1_ChangeDetection ==
    Compared =>
        /\ save_pkl = ~SameSnapshot
        /\ SameSnapshot => pkl = pre.pkl
        /\ ~SameSnapshot => pkl # <<>> /\ pkl # pre.pkl /\ Stored(pkl) = Reduced(stars)

\* A second run over two languages finds its snapshot stored, although a star
\* count differs from the one that was fetched before.
C1_Witness ==
    /\ pc = "exit"
    /\ result = "done"
    /\ ~save_pkl
    /\ pkl = pre.pkl
    /\ Len(new_dict) = 2
    /\ \E i \in 1..Len(stars) : stars[i].stargazers_count = 2

(* C2: a publishing run whose snapshot equals the stored one ends with the
   no-change error before any call to the repository: no lookup, no creation,
   no update, no file, no launch; the pickle and the repository stay. *)
C2_UnchangedPublishAborts ==
    /\ (Compared /\ repo_file.exists /\ SameSnapshot) =>
           /\ pc = "exit"
           /\ result = "unchanged"
           /\ calls = <<>>
           /\ remote = pre.remote
           /\ pkl = pre.pkl
    /\ (pc = "exit" /\ result = "unchanged") => PublishingExit /\ SameSnapshot

C2_Witness ==
    /\ PublishingExit
    /\ result = "unchanged"
    /\ stars # <<>>
    /\ pre.remote.exists

(* C3: a publishing run that reaches a repository holding the archive of
   today reports the duplicate and writes nothing: no README update, no
   archive; and no day ever has more than one archive commit. *)
C3_OneArchivePerDay ==
    /\ (PublishingExit /\ calls # <<>> /\ pre.remote.exists
            /\ pre.remote.archives[today] > 0) =>
           /\ result = "duplicate"
           /\ remote = pre.remote
           /\ \A i \in 1..Len(calls) : ~IsWrite(calls[i])
    /\ \A d \in Days : remote.archives[d] <= 1

C3_Witness ==
    /\ PublishingExit
    /\ result = "duplicate"
    /\ save_pkl
    /\ today = MaxDay
    /\ \A d \in Days : remote.archives[d] = 1

(* C4: a run that GitHub refuses (ForbiddenError) leaves the contents of the
   output file and the pickle as they were before the run. *)
C4_ForbiddenLeavesFiles ==
    (pc = "exit" /\ result \in {"forbidden", "uncaught_forbidden"}) =>
        /\ outFile.text = pre.outFile.text
        /\ pkl = pre.pkl

(* C5: a publishing run that ends with the duplicate archive error does not
   replace the stored snapshot. *)
C5_DuplicateKeepsPickle ==
    (PublishingExit /\ result = "duplicate") => pkl = pre.pkl

(* C6: when a publishing run is over, however it ended, sys.stdout is the
   original stream again. *)
C6_StdoutRestored ==
    PublishingExit => sys_stdout = "console"

(* C7: the browser is launched only with the launch flag set and only after
   the run wrote README.md and the archive of today. *)
C7_LaunchOnlyAfterPublish ==
    (pc = "exit" /\ Made("launch")) =>
        /\ options.launch
        /\ result = "published"
        /\ remote.readme > pre.remote.readme
        /\ remote.archives[today] > pre.remote.archives[today]

(* C8: every commit of README.md of a publishing run, the update of an
   existing one and the creation of a new one, carries the message of the
   caller when there is one and 'Add starred <today>' when there is none. *)
C8_ReadmeCommitMessage ==
    pc = "exit" =>
        \A i \in 1..Len(calls) :
            (calls[i].op \in {"update", "create_file"} /\ calls[i].path = ReadmePath) =>
                calls[i].message = IF options.message # <<>> THEN options.message
                                   ELSE AddStarred(today)

(* C10: create_repository is called only when the lookup of the repository
   reported that it is not there. *)
C10_CreateOnlyWhenAbsent ==
    (pc = "exit" /\ Made("create_repository")) => ~pre.remote.exists

----------------------------------------------------------------------------
(* Sorting *)

\* The run has sorted its groups.
Sorted == pc \in {"publish", "exit"} /\ result \in {"running", "done"}

InOrder(e, sort) ==
    \A j, k \in 1..Len(e) :
        j < k =>
            IF sort = "name" THEN StrRank(e[j][1]) <= StrRank(e[k][1])
            ELSE IF sort = "stars"
            THEN e[j][5] > e[k][5] \/ (e[j][5] = e[k][5] /\ e[j][6] < e[k][6])
            ELSE e[j][6] <= e[k][6]

\* name, URL, owner, star count and fetch index of the stars of language l
Fetched(l) ==
    { <<stars[n].name, stars[n].html_url, stars[n].owner, stars[n].stargazers_count, n - 1>> :
        n \in { m \in 1..Len(stars) : GroupKey(stars[m]) = l } }

Listed(e) == { <<e[j][1], e[j][2], e[j][4], e[j][5], e[j][6]>> : j \in 1..Len(e) }

(* C9: after sorting, the groups are the languages of the fetched stars;
   each group holds exactly the stars of its language, once each; sort=name
   orders it by non-decreasing name, sort=stars by non-increasing star count
   with equal counts in fetch order, sort=date by fetch index; and the total
   is the number of fetched stars. *)
C9_SortedGroups ==
    Sorted =>
        /\ { repo_dict[i][1] : i \in 1..Len(repo_dict) }
               = { GroupKey(stars[n]) : n \in 1..Len(stars) }
        /\ \A i, j \in 1..Len(repo_dict) : i # j => repo_dict[i][1] # repo_dict[j][1]
        /\ \A i \in 1..Len(repo_dict) :
               /\ InOrder(repo_dict[i][2], options.sort)
               /\ Listed(repo_dict[i][2]) = Fetched(repo_dict[i][1])
               /\ Cardinality(Fetched(repo_dict[i][1])) = Len(repo_dict[i][2])
        /\ console[1].count = Len(stars)

\* Sorted by stars, a group of three whose two most starred tie, the less
\* starred one having been fetched between them.
C9_Witness ==
    /\ pc = "exit"
    /\ options.sort = "stars"
    /\ \E i \in 1..Len(repo_dict) :
           LET e == repo_dict[i][2]
           IN /\ Len(e) = 3
              /\ e[1][5] = e[2][5]
              /\ e[3][5] < e[2][5]
              /\ e[1][6] < e[3][6]
              /\ e[3][6] < e[2][6]

====
